---- MODULE Spec2Model ----
(***************************************************************************)
(* Model of the MLX-LM FastAPI server (src/mlx_api/server.py, models.py,   *)
(* config.py).                                                             *)
(*                                                                         *)
(* The server is one asyncio event loop.  Every endpoint is an `async def` *)
(* without any `await` in its body, and mlx_lm.load / mlx_lm.generate are  *)
(* synchronous calls, so a handler that has started keeps the loop until   *)
(* it returns or raises.  `running` is the request whose handler holds the *)
(* loop (NoTask when the loop is idle).  The handler is split at its calls *)
(* into the external runtime (tokenizer, generate), whose results are      *)
(* chosen nondeterministically.                                            *)
(*                                                                         *)
(* Units: time in whole seconds; temperature and top_p in tenths.          *)
(***************************************************************************)
EXTENDS Integers, Sequences, FiniteSets, TLC

\* ---------------------------------------------------------------- bounds
MaxRequests == 2

\* ------------------------------------------------------ program constants
max_input_tokens == 2048
max_output_tokens == 1024
request_timeout == 60

max_tokens_default == 512
max_tokens_ge == 1
max_tokens_le == 2048
temperature_default == 7
temperature_ge == 0
temperature_le == 20
top_p_default == 9
top_p_ge == 0
top_p_le == 10

None == "None"

\* no /health or /stats response was produced by the last step
NoResponse == [endpoint |-> None]

\* lifespan() has not been left by an exception
NoError == [type |-> None]
NoTask == 0
ModelId == "mlx-community/Llama-3.2-3B-Instruct-4bit"

Requests == 1..MaxRequests

\* ------------------------------------------------------------ input sets
Conversation ==
    << [role |-> "system", content |-> "You are a helpful assistant."],
       [role |-> "user", content |-> "Hello"] >>

MessageLists ==
    { Conversation,
      << >>,
      << [role |-> "tool", content |-> "Hello"] >> }

MaxTokensValues == {0, 2000, 2049}
TemperatureValues == {-1, 21}
TopPValues == {-1, 11}

LoadDurations == {2}
RenderDurations == {1}
InputTokenCounts == {max_input_tokens, max_input_tokens + 1}

\* sample runs of generate(...): seconds taken and tokens in the returned
\* text; a short run and one that outlasts request_timeout
GenerateOutcomes ==
    { [dur |-> 1, tokens |-> 5],
      [dur |-> request_timeout + 1, tokens |-> 1] }

GenDurations == {o.dur : o \in GenerateOutcomes}
OutputTokenCounts == {o.tokens : o \in GenerateOutcomes}

\* GenerateRequest with the field defaults of models.py
DefaultRequest ==
    [messages |-> Conversation,
     max_tokens |-> max_tokens_default,
     temperature |-> temperature_default,
     top_p |-> top_p_default]

RequestBodies ==
    {[DefaultRequest EXCEPT !.messages = m] : m \in MessageLists}
    \cup {[DefaultRequest EXCEPT !.max_tokens = k] : k \in MaxTokensValues}
    \cup {[DefaultRequest EXCEPT !.temperature = t] : t \in TemperatureValues}
    \cup {[DefaultRequest EXCEPT !.top_p = p] : p \in TopPValues}

\* ------------------------------------------------------------------ state
VARIABLES
    state,        \* the ModelState singleton
    phase,        \* position of lifespan(): "init", "serving", "failed", "stopped"
    now,          \* time.time()
    running,      \* request whose handler holds the event loop, or NoTask
    reqs,         \* per request: handler position, inputs, locals, response
    readResp,     \* response of the /health or /stats served in the last step
    overlap,      \* some request waited on the socket while another was picked up
    lifespanError \* exception that left lifespan(), None if there was none

vars == <<state, phase, now, running, reqs, readResp, overlap, lifespanError>>

\* class ModelState
ModelState ==
    [model |-> None,
     tokenizer |-> None,
     model_id |-> "",
     load_time |-> 0,
     start_time |-> 0,
     request_count |-> 0,
     total_tokens_generated |-> 0]

NewRequest ==
    [pc |-> "new",
     body |-> DefaultRequest,
     start_time |-> 0,
     render_dur |-> 0,
     input_tokens |-> -1,
     gen_max_tokens |-> -1,
     gen_dur |-> 0,
     gen_returned |-> FALSE,
     out_tokens |-> -1,
     tokens_generated |-> -1,
     elapsed_ms |-> -1,
     status |-> 0,
     detail |-> None,
     exc_message |-> None,
     tok_calls |-> 0,
     gen_calls |-> 0,
     model_loaded |-> FALSE,
     rc_before |-> 0,
     tt_before |-> 0,
     rc_after |-> 0,
     tt_after |-> 0]

Init ==
    /\ state = ModelState
    /\ phase = "init"
    /\ now = 1
    /\ running = NoTask
    /\ reqs = [r \in Requests |-> NewRequest]
    /\ readResp = NoResponse
    /\ overlap = FALSE
    /\ lifespanError = NoError

\* ------------------------------------------------------------- lifespan
\* messages of the exceptions load(config.model_id) can raise
LoadFailures == {"model not found"}

\* variant: the RuntimeError does not carry the cause
LoadError_NoCause(cause) ==
    [type |-> "RuntimeError", message |-> <<"Model loading failed">>]

\* raise RuntimeError(f"Model loading failed: {e}")
LoadError(cause) ==
    [type |-> "RuntimeError", message |-> <<"Model loading failed: ", cause>>]

\* variant: shutdown leaves the model and tokenizer in place
StopState_Noop(s) == s

\* variant: shutdown also zeroes the statistics
StopState_ResetsCounters(s) ==
    [s EXCEPT !.model = None, !.tokenizer = None,
              !.request_count = 0, !.total_tokens_generated = 0]

\* variant: shutdown forgets to clear the tokenizer
StopState_ModelOnly(s) == [s EXCEPT !.model = None]

\* state.model = None; state.tokenizer = None
StopState(s) == [s EXCEPT !.model = None, !.tokenizer = None]

\* load(config.model_id) returns: lines 54-58
LoadOk ==
    /\ phase = "init"
    /\ running = NoTask
    /\ \E d \in LoadDurations :
        /\ now' = now + d
        /\ state' = [state EXCEPT !.model = "Model",
                                  !.tokenizer = "Tokenizer",
                                  !.model_id = ModelId,
                                  !.load_time = d,
                                  !.start_time = now + d]
    /\ phase' = "serving"
    /\ readResp' = NoResponse
    /\ UNCHANGED <<overlap, lifespanError>>
    /\ UNCHANGED <<running, reqs>>

\* load(config.model_id) raises: lines 59-61, RuntimeError leaves lifespan
LoadFail ==
    /\ phase = "init"
    /\ running = NoTask
    /\ \E d \in LoadDurations : now' = now + d
    /\ \E cause \in LoadFailures : lifespanError' = LoadError(cause)
    /\ phase' = "failed"
    /\ readResp' = NoResponse
    /\ UNCHANGED overlap
    /\ UNCHANGED <<state, running, reqs>>

\* lines 65-68
Shutdown ==
    /\ phase = "serving"
    /\ running = NoTask
    /\ state' = StopState(state)
    /\ phase' = "stopped"
    /\ readResp' = NoResponse
    /\ UNCHANGED <<overlap, lifespanError>>
    /\ UNCHANGED <<now, running, reqs>>

\* ------------------------------------------------------ request parsing
Roles == {"system", "user", "assistant"}

\* Field(default=512, ge=1, le=2048)
MaxTokensValid(k) == k >= max_tokens_ge /\ k <= max_tokens_le

\* Field(default=0.7, ge=0.0, le=2.0)
TemperatureValid(t) == t >= temperature_ge /\ t <= temperature_le

\* Field(default=0.9, ge=0.0, le=1.0)
TopPValid(p) == p >= top_p_ge /\ p <= top_p_le

\* class Message: role and content are plain str fields, any string passes
MessageValid(m) == TRUE

\* class GenerateRequest: messages is list[Message] with no length constraint
Validates(b) ==
    /\ \A i \in 1..Len(b.messages) : MessageValid(b.messages[i])
    /\ MaxTokensValid(b.max_tokens)
    /\ TemperatureValid(b.temperature)
    /\ TopPValid(b.top_p)

\* --------------------------------------------------- handler helpers
\* variant: the readiness gate lets every request through
ModelNotLoaded_NoGate(s) == FALSE

\* if state.model is None or state.tokenizer is None
ModelNotLoaded(s) == s.model = None \/ s.tokenizer = None

\* variant: a prompt of exactly max_input_tokens tokens is rejected too
InputTooLong_Inclusive(n) == n >= max_input_tokens

\* if input_tokens > config.max_input_tokens
InputTooLong(n) == n > max_input_tokens

\* variant: the larger of the two values is passed on
Min_Larger(a, b) == IF a <= b THEN b ELSE a

\* min(request.max_tokens, config.max_output_tokens)
Min(a, b) == IF a <= b THEN a ELSE b

EffectiveMaxTokens(b) == Min(b.max_tokens, max_output_tokens)

\* except HTTPException: raise / except Exception: HTTPException(500)
HandlerStatus(exc) ==
    IF exc.kind = "HTTPException" THEN exc.status_code ELSE 500

\* variant: the 500 response drops the message of the exception
HandlerDetail_Generic(exc) ==
    IF exc.kind = "HTTPException" THEN exc.detail ELSE <<"Generation failed">>

\* except HTTPException: raise / detail=f"Generation failed: {str(e)}"
HandlerDetail(exc) ==
    IF exc.kind = "HTTPException" THEN exc.detail
    ELSE <<"Generation failed: ", exc.message>>

\* HTTPException(status_code=503, detail=...): lines 131-134
NotLoadedError ==
    [kind |-> "HTTPException", status_code |-> 503,
     detail |-> <<"Model not loaded. Server is starting up.">>, message |-> None]

\* HTTPException(status_code=400, detail=...): lines 153-156
InputTooLongError(n) ==
    [kind |-> "HTTPException", status_code |-> 400,
     detail |-> <<"Input too long: ", n, " tokens (max: ", max_input_tokens, ")">>,
     message |-> None]

\* an exception raised by the tokenizer or by generate, with its message
RuntimeException(msg) ==
    [kind |-> "Exception", status_code |-> 0, detail |-> None, message |-> msg]

\* variant: generate is awaited in a worker thread and the loop is released
LoopAfterGenerateCall_Awaited(r) == NoTask

\* generate(...) is called synchronously: the handler keeps the event loop
LoopAfterGenerateCall(r) == r

\* variant: the increment is missing
IncRequestCount_Lost(s) == s

\* state.request_count += 1
IncRequestCount(s) == [s EXCEPT !.request_count = @ + 1]

\* variant: the total is overwritten instead of accumulated
AddTokens_Assign(s, n) == [s EXCEPT !.total_tokens_generated = n]

\* state.total_tokens_generated += tokens_generated
AddTokens(s, n) == [s EXCEPT !.total_tokens_generated = @ + n]

\* int((time.time() - start_time) * 1000)
ElapsedMs(t0) == (now - t0) * 1000

\* the handler is left by exception exc, ServerState being s
Failed(q, exc, s) ==
    [q EXCEPT !.pc = "done",
              !.status = HandlerStatus(exc),
              !.detail = HandlerDetail(exc),
              !.exc_message = exc.message,
              !.rc_after = s.request_count,
              !.tt_after = s.total_tokens_generated]

\* the request leaves the server with status code st, ServerState being s
Finished(q, st, s) ==
    [q EXCEPT !.pc = "done",
              !.status = st,
              !.rc_after = s.request_count,
              !.tt_after = s.total_tokens_generated]

\* requests are named in the order in which the event loop picks them up
NextToRun(r) == reqs[r].pc = "sent" /\ \A o \in Requests : o < r => reqs[o].pc \notin {"new", "sent"}

\* ---------------------------------------------------------- /generate
\* a client sends POST /generate; the bytes wait on the socket until the
\* event loop is free to read them
Submit(r) ==
    /\ reqs[r].pc = "new"
    /\ reqs' = [reqs EXCEPT ![r] = [@ EXCEPT !.pc = "sent"]]
    /\ readResp' = NoResponse
    /\ UNCHANGED <<overlap, lifespanError>>
    /\ UNCHANGED <<state, phase, now, running>>

\* FastAPI reads the body b and parses it into GenerateRequest (a body that
\* fails validation is answered 422 and the endpoint never runs), then
\* lines 130-137: readiness gate, start_time, request_count += 1
Enter(r) ==
    /\ NextToRun(r)
    /\ running = NoTask
    /\ \E b \in RequestBodies :
       LET q == [reqs[r] EXCEPT
                    !.body = b,
                    !.model_loaded = (state.model # None),
                    !.rc_before = state.request_count,
                    !.tt_before = state.total_tokens_generated]
       IN IF ~Validates(q.body)
          THEN /\ reqs' = [reqs EXCEPT ![r] = Finished(q, 422, state)]
               /\ UNCHANGED <<state, running>>
          ELSE IF ModelNotLoaded(state)
          THEN /\ reqs' = [reqs EXCEPT ![r] = Failed(q, NotLoadedError, state)]
               /\ UNCHANGED <<state, running>>
          ELSE /\ state' = IncRequestCount(state)
               /\ reqs' = [reqs EXCEPT ![r] =
                             [q EXCEPT !.pc = "render", !.start_time = now]]
               /\ running' = r
    /\ overlap' = (overlap \/ \E o \in Requests \ {r} : reqs[o].pc = "sent")
    /\ readResp' = NoResponse
    /\ UNCHANGED lifespanError
    /\ UNCHANGED <<phase, now>>

\* an exception other than HTTPException leaves the try block: lines 186-191
Raise(r, q, msg) ==
    /\ reqs' = [reqs EXCEPT ![r] = Failed(q, RuntimeException(msg), state)]
    /\ running' = NoTask
    /\ readResp' = NoResponse
    /\ UNCHANGED <<overlap, lifespanError>>
    /\ UNCHANGED <<state, phase>>

\* lines 141-148: state.tokenizer.apply_chat_template(...) returns the prompt
RenderOk(r) ==
    /\ reqs[r].pc = "render"
    /\ running = r
    /\ state.tokenizer # None
    /\ \E d \in RenderDurations :
        /\ now' = now + d
        /\ reqs' = [reqs EXCEPT ![r] =
                      [@ EXCEPT !.pc = "encode", !.render_dur = d, !.tok_calls = @ + 1]]
    /\ readResp' = NoResponse
    /\ UNCHANGED <<overlap, lifespanError>>
    /\ UNCHANGED <<state, phase, running>>

\* lines 141-148: apply_chat_template raises (or tokenizer is None)
RenderRaise(r) ==
    /\ reqs[r].pc = "render"
    /\ running = r
    /\ \E d \in RenderDurations :
        /\ now' = now + d
        /\ Raise(r, [reqs[r] EXCEPT !.render_dur = d, !.tok_calls = @ + 1],
                 "chat template error")

\* lines 151-156: len(state.tokenizer.encode(prompt)) and the length check
EncodeInput(r) ==
    /\ reqs[r].pc = "encode"
    /\ running = r
    /\ \E n \in InputTokenCounts :
        LET q == [reqs[r] EXCEPT !.input_tokens = n, !.tok_calls = @ + 1]
        IN IF InputTooLong(n)
           THEN /\ reqs' = [reqs EXCEPT ![r] = Failed(q, InputTooLongError(n), state)]
                /\ running' = NoTask
           ELSE /\ reqs' = [reqs EXCEPT ![r] = [q EXCEPT !.pc = "generate"]]
                /\ UNCHANGED running
    /\ readResp' = NoResponse
    /\ UNCHANGED <<overlap, lifespanError>>
    /\ UNCHANGED <<state, phase, now>>

\* line 151: state.tokenizer.encode(prompt) raises
EncodeInputRaise(r) ==
    /\ reqs[r].pc = "encode"
    /\ running = r
    /\ Raise(r, [reqs[r] EXCEPT !.tok_calls = @ + 1], "prompt encode error")
    /\ UNCHANGED now

\* lines 161-168: generate(...) is entered
GenerateCall(r) ==
    /\ reqs[r].pc = "generate"
    /\ running = r
    /\ reqs' = [reqs EXCEPT ![r] =
                  [@ EXCEPT !.pc = "generating",
                            !.gen_calls = @ + 1,
                            !.gen_max_tokens = EffectiveMaxTokens(reqs[r].body)]]
    /\ running' = LoopAfterGenerateCall(r)
    /\ readResp' = NoResponse
    /\ UNCHANGED <<overlap, lifespanError>>
    /\ UNCHANGED <<state, phase, now>>

\* lines 161-168: generate(...) returns response_text after d seconds
GenerateReturn(r) ==
    /\ reqs[r].pc = "generating"
    /\ running = r
    /\ \E o \in GenerateOutcomes :
        /\ now' = now + o.dur
        /\ reqs' = [reqs EXCEPT ![r] =
                      [@ EXCEPT !.pc = "metrics",
                                !.gen_dur = o.dur,
                                !.gen_returned = TRUE,
                                !.out_tokens = o.tokens]]
    /\ readResp' = NoResponse
    /\ UNCHANGED <<overlap, lifespanError>>
    /\ UNCHANGED <<state, phase, running>>

\* lines 161-168: generate(...) raises after d seconds
GenerateRaise(r) ==
    /\ reqs[r].pc = "generating"
    /\ running = r
    /\ \E d \in GenDurations :
        /\ now' = now + d
        /\ Raise(r, [reqs[r] EXCEPT !.gen_dur = d], "generate error")

\* lines 171-182: elapsed_ms, tokens_generated, total_tokens_generated +=,
\* and the GenerateResponse is returned
Metrics(r) ==
    /\ reqs[r].pc = "metrics"
    /\ running = r
    /\ state' = AddTokens(state, reqs[r].out_tokens)
    /\ reqs' = [reqs EXCEPT ![r] =
                  Finished([@ EXCEPT !.elapsed_ms = ElapsedMs(reqs[r].start_time),
                                     !.tokens_generated = reqs[r].out_tokens,
                                     !.tok_calls = @ + 1],
                           200, state')]
    /\ running' = NoTask
    /\ readResp' = NoResponse
    /\ UNCHANGED <<overlap, lifespanError>>
    /\ UNCHANGED <<phase, now>>

\* line 172: state.tokenizer.encode(response_text) raises
MetricsRaise(r) ==
    /\ reqs[r].pc = "metrics"
    /\ running = r
    /\ Raise(r, [reqs[r] EXCEPT !.elapsed_ms = ElapsedMs(reqs[r].start_time),
                                !.tok_calls = @ + 1],
             "response encode error")
    /\ UNCHANGED now

\* ------------------------------------------------------ /health, /stats
\* time.time() - state.start_time if state.start_time else 0
Uptime(s) == IF s.start_time # 0 THEN now - s.start_time ELSE 0

\* variant: health is derived from start_time, which shutdown does not clear
HealthResponse_ByStartTime(s) ==
    [status |-> IF s.start_time # 0 THEN "healthy" ELSE "unhealthy",
     model |-> s.model_id,
     model_loaded |-> s.start_time # 0,
     uptime_seconds |-> Uptime(s)]

\* lines 99-107
HealthResponse(s) ==
    [status |-> IF s.model # None THEN "healthy" ELSE "unhealthy",
     model |-> s.model_id,
     model_loaded |-> s.model # None,
     uptime_seconds |-> Uptime(s)]

\* lines 110-119
StatsResponse(s) ==
    [model |-> s.model_id,
     model_load_time_seconds |-> s.load_time,
     uptime_seconds |-> now - s.start_time,
     total_requests |-> s.request_count,
     total_tokens_generated |-> s.total_tokens_generated]

\* variant: reads are served while a handler is suspended in generate
LoopIdle_Always == TRUE

\* the event loop can start a new handler only when no handler holds it
LoopIdle == running = NoTask

\* variant: /health is counted as a request
health_check_Counted ==
    /\ LoopIdle
    /\ readResp' = [endpoint |-> "/health", body |-> HealthResponse(state)]
    /\ state' = IncRequestCount(state)
    /\ UNCHANGED <<phase, now, running, reqs, overlap, lifespanError>>

health_check ==
    /\ LoopIdle
    /\ readResp' = [endpoint |-> "/health", body |-> HealthResponse(state)]
    /\ UNCHANGED <<state, phase, now, running, reqs, overlap, lifespanError>>

get_stats ==
    /\ LoopIdle
    /\ readResp' = [endpoint |-> "/stats", body |-> StatsResponse(state)]
    /\ UNCHANGED <<state, phase, now, running, reqs, overlap, lifespanError>>

Next ==
    \/ LoadOk
    \/ LoadFail
    \/ Shutdown
    \/ \E r \in Requests : Submit(r)
    \/ \E r \in Requests : Enter(r)
    \/ \E r \in Requests : RenderOk(r)
    \/ \E r \in Requests : RenderRaise(r)
    \/ \E r \in Requests : EncodeInput(r)
    \/ \E r \in Requests : EncodeInputRaise(r)
    \/ \E r \in Requests : GenerateCall(r)
    \/ \E r \in Requests : GenerateReturn(r)
    \/ \E r \in Requests : GenerateRaise(r)
    \/ \E r \in Requests : Metrics(r)
    \/ \E r \in Requests : MetricsRaise(r)
    \/ health_check
    \/ get_stats

Spec == Init /\ [][Next]_vars
\* ====================================================================
\* Properties
\* ====================================================================
Done(r) == reqs[r].pc = "done"

\* the request has been picked up by the event loop
PickedUp(r) == reqs[r].pc \notin {"new", "sent"}

\* error taxonomy of the HTTP surface
ErrorKind(st) ==
    CASE st = 200 -> "OK"
      [] st = 503 -> "ServiceUnavailable"
      [] st = 422 -> "InvalidRequest"
      [] st = 400 -> "InputTooLong"
      [] st = 500 -> "InternalGenerationError"
      [] OTHER -> "Timeout"

CountersUnchanged(q) == q.rc_after = q.rc_before /\ q.tt_after = q.tt_before

NoRuntimeCall(q) == q.tok_calls = 0 /\ q.gen_calls = 0

\* the shape a request must have: non-empty messages, known roles, fields in range
ShapeOk(b) ==
    /\ Len(b.messages) > 0
    /\ \A i \in 1..Len(b.messages) : b.messages[i].role \in Roles
    /\ b.max_tokens >= 1 /\ b.max_tokens <= 2048
    /\ b.temperature >= 0 /\ b.temperature <= 20
    /\ b.top_p >= 0 /\ b.top_p <= 10

RECURSIVE SumTokens(_)
SumTokens(S) ==
    IF S = {} THEN 0
    ELSE LET r == CHOOSE x \in S : TRUE
         IN reqs[r].tokens_generated + SumTokens(S \ {r})

GeneratingSet == {r \in Requests : reqs[r].pc = "generating"}

C2_InputTooLong ==
    \A r \in Requests :
        /\ reqs[r].input_tokens > max_input_tokens =>
              /\ Done(r)
              /\ reqs[r].status = 400
              /\ reqs[r].gen_calls = 0
        /\ (reqs[r].input_tokens >= 0 /\ reqs[r].input_tokens <= max_input_tokens) =>
              /\ reqs[r].status # 400
              /\ reqs[r].pc = "generate" \/ reqs[r].gen_calls = 1

\* one request rejected at max+1 tokens, another served at exactly max tokens
C2_Witness ==
    \E r, o \in Requests :
        /\ Done(r) /\ reqs[r].input_tokens = max_input_tokens + 1 /\ reqs[r].status = 400
        /\ Done(o) /\ reqs[o].input_tokens = max_input_tokens /\ reqs[o].status = 200

\* C3: when all requests picked up so far completed with 200, request_count
\* is their number and total_tokens_generated the sum of their output token
\* counts, also when they were submitted concurrently.
C3_CountersAfterSuccesses ==
    LET P == {r \in Requests : PickedUp(r)}
    IN (\A r \in P : Done(r) /\ reqs[r].status = 200) =>
          /\ state.request_count = Cardinality(P)
          /\ state.total_tokens_generated = SumTokens(P)

\* all requests succeeded with different token counts, having waited together
C3_Witness ==
    /\ \A r \in Requests : Done(r) /\ reqs[r].status = 200
    /\ overlap
    /\ \E r, o \in Requests : reqs[r].tokens_generated # reqs[o].tokens_generated
    /\ state.request_count = MaxRequests

\* C4 (as stated): a request that fails before the generate call begins
\* changes neither request_count nor total_tokens_generated.
C4_FailedBeforeGenerate ==
    \A r \in Requests :
        (Done(r) /\ reqs[r].status # 200 /\ reqs[r].gen_calls = 0) =>
            CountersUnchanged(reqs[r])

\* C5 (as stated): a request whose generate call returned adds exactly 1 to
\* request_count and exactly its output token count to
\* total_tokens_generated, even if a later step fails.
C5_CountedOnceAfterGenerate ==
    \A r \in Requests :
        (Done(r) /\ reqs[r].gen_returned) =>
            /\ reqs[r].rc_after = reqs[r].rc_before + 1
            /\ reqs[r].tt_after = reqs[r].tt_before + reqs[r].out_tokens

\* C6 (as stated): a generation that runs longer than request_timeout is
\* abandoned, the request fails with Timeout and the counters are unchanged.
C6_Timeout ==
    \A r \in Requests :
        (Done(r) /\ reqs[r].gen_dur > request_timeout) =>
            /\ ErrorKind(reqs[r].status) = "Timeout"
            /\ ~reqs[r].gen_returned
            /\ CountersUnchanged(reqs[r])

\* C7: at most one generate call is in flight in any reachable state.
C7_OneGenerateInFlight == Cardinality(GeneratingSet) <= 1

\* a generate call in flight while another submitted request waits
C7_Witness ==
    \E r, o \in Requests : reqs[r].pc = "generating" /\ reqs[o].pc = "sent"

\* C8 (as stated): while a generate call is in flight, /health and /stats
\* can still be served.
C8_ReadsNotBlocked ==
    GeneratingSet # {} => (ENABLED health_check /\ ENABLED get_stats)

\* C9: the max_tokens passed to generate is min(request.max_tokens,
\* max_output_tokens): never above the ceiling, never above the client's
\* value, and one of the two.
C9_EffectiveMaxTokens ==
    \A r \in Requests :
        reqs[r].gen_calls > 0 =>
            /\ reqs[r].gen_max_tokens <= max_output_tokens
            /\ reqs[r].gen_max_tokens <= reqs[r].body.max_tokens
            /\ reqs[r].gen_max_tokens \in {reqs[r].body.max_tokens, max_output_tokens}

\* a client value above the ceiling was capped, one below it was passed as is
C9_Witness ==
    \E r, o \in Requests :
        /\ reqs[r].body.max_tokens = 2000 /\ reqs[r].gen_max_tokens = 1024
        /\ reqs[o].body.max_tokens = 512 /\ reqs[o].gen_max_tokens = 512

\* C10 (as stated): a request with an empty message list, an unknown role
\* or an out-of-range max_tokens, temperature or top_p is rejected with
\* InvalidRequest before any tokenizer or generate call.
C10_ShapeValidation ==
    \A r \in Requests :
        (PickedUp(r) /\ ~ShapeOk(reqs[r].body)) =>
            /\ Done(r)
            /\ ErrorKind(reqs[r].status) = "InvalidRequest"
            /\ NoRuntimeCall(reqs[r])
\* the step in which request r is answered 500 because the tokenizer or
\* generate raised during rendering, input token counting or generation
RuntimeFailureStep(r) ==
    /\ reqs[r].pc \in {"render", "encode", "generating"}
    /\ reqs'[r].pc = "done"
    /\ reqs'[r].exc_message # None

\* C11: when the runtime raises during prompt rendering, input token
\* counting or generation, the request is answered 500 with a detail that
\* carries the exception's message, the event loop is free for later
\* requests, and model, tokenizer, model_id and total_tokens_generated are
\* what they were before the request.
C11_RuntimeFailure ==
    [][\A r \in Requests :
         RuntimeFailureStep(r) =>
            /\ ErrorKind(reqs'[r].status) = "InternalGenerationError"
            /\ reqs'[r].detail = <<"Generation failed: ", reqs'[r].exc_message>>
            /\ reqs'[r].exc_message \in
                  {"chat template error", "prompt encode error", "generate error"}
            /\ running' = NoTask
            /\ state'.model = state.model /\ state'.model # None
            /\ state'.tokenizer = state.tokenizer
            /\ state'.model_id = state.model_id
            /\ state'.total_tokens_generated = reqs'[r].tt_before]_vars

\* generate raised for one request and a later request was served with 200
C11_Witness ==
    \E r, o \in Requests :
        /\ Done(r) /\ reqs[r].status = 500 /\ reqs[r].exc_message = "generate error"
        /\ Done(o) /\ reqs[o].status = 200 /\ reqs[o].rc_before > reqs[r].rc_before
\* modelLoaded, as /health reports it
ModelLoaded(s) == s.model # None

InFlight(r) == reqs[r].pc \in {"render", "encode", "generate", "generating", "metrics"}

\* C12: the model is not loaded before a successful load and after
\* shutdown; it becomes loaded only by the successful load and never again
\* once shut down; a request calls the tokenizer or generate only while the
\* model is loaded.
C12_LoadedInterval ==
    /\ [](/\ phase \in {"init", "failed", "stopped"} => ~ModelLoaded(state)
          /\ \A r \in Requests :
                /\ (reqs[r].tok_calls > 0 \/ reqs[r].gen_calls > 0) => reqs[r].model_loaded
                /\ InFlight(r) => ModelLoaded(state) /\ state.tokenizer # None)
    /\ [][/\ (~ModelLoaded(state) /\ ModelLoaded(state')) =>
                (phase = "init" /\ phase' = "serving")
          /\ phase = "stopped" => (phase' = "stopped" /\ ~ModelLoaded(state'))]_vars

\* after shutdown: one request had been served with 200 while loaded, a
\* later one was turned away without any runtime call
C12_Witness ==
    /\ phase = "stopped" /\ ~ModelLoaded(state)
    /\ \E r, o \in Requests :
        /\ Done(r) /\ reqs[r].status = 200 /\ reqs[r].gen_calls = 1
        /\ Done(o) /\ ~reqs[o].model_loaded /\ NoRuntimeCall(reqs[o])
        /\ reqs[o].rc_before = reqs[r].rc_after

\* the step in which a load attempt ends without a model
LoadFailedStep == phase = "init" /\ now' # now /\ ~ModelLoaded(state')

\* C13: when load fails the model stays not loaded, lifespan is left by a
\* RuntimeError whose message carries the cause, the service never reaches
\* the serving phase and load is not tried again.
C13_LoadFailure ==
    /\ [][LoadFailedStep =>
             /\ state' = state
             /\ phase' = "failed"
             /\ \E cause \in LoadFailures :
                   lifespanError' = [type |-> "RuntimeError",
                                     message |-> <<"Model loading failed: ", cause>>]]_vars
    /\ [][phase = "failed" =>
             /\ phase' = "failed"
             /\ state' = state
             /\ lifespanError' = lifespanError]_vars
    /\ [](lifespanError # NoError => (phase = "failed" /\ ~ModelLoaded(state)))

\* load failed, and a request made afterwards was turned away
C13_Witness ==
    /\ phase = "failed" /\ lifespanError # NoError
    /\ \E r \in Requests : Done(r) /\ reqs[r].status = 503
\* C14: /health reports "healthy" exactly when the model is loaded, with
\* model_loaded equal to it; uptime is 0 when the model was never loaded and
\* is never negative.
C14_Health ==
    readResp.endpoint = "/health" =>
        /\ (readResp.body.status = "healthy") <=> (state.model # None)
        /\ readResp.body.status \in {"healthy", "unhealthy"}
        /\ readResp.body.model_loaded = (state.model # None)
        /\ phase \in {"init", "failed"} => readResp.body.uptime_seconds = 0
        /\ phase \in {"serving", "stopped"} =>
              readResp.body.uptime_seconds = now - state.start_time
        /\ readResp.body.uptime_seconds >= 0

\* /health asked after shutdown, some time after the load
C14_Witness ==
    /\ readResp.endpoint = "/health"
    /\ phase = "stopped"
    /\ readResp.body.status = "unhealthy"
    /\ readResp.body.uptime_seconds > 0
RECURSIVE SumCounted(_)
\* what the requests in S have added to request_count
SumCounted(S) ==
    IF S = {} THEN 0
    ELSE LET r == CHOOSE x \in S : TRUE
         IN (reqs[r].rc_after - reqs[r].rc_before) + SumCounted(S \ {r})

RECURSIVE SumAdded(_)
\* what the requests in S have added to total_tokens_generated
SumAdded(S) ==
    IF S = {} THEN 0
    ELSE LET r == CHOOSE x \in S : TRUE
         IN (reqs[r].tt_after - reqs[r].tt_before) + SumAdded(S \ {r})

DoneSet == {r \in Requests : Done(r)}

\* C15: every /stats response is the pair (request_count,
\* total_tokens_generated) of the state between two handler runs: no request
\* is part-way through its updates, and each finished request contributes
\* the whole of what it added to both counters.
C15_StatsSnapshot ==
    readResp.endpoint = "/stats" =>
        /\ \A r \in Requests : ~InFlight(r)
        /\ readResp.body.total_requests = state.request_count
        /\ readResp.body.total_tokens_generated = state.total_tokens_generated
        /\ readResp.body.total_requests = SumCounted(DoneSet)
        /\ readResp.body.total_tokens_generated = SumAdded(DoneSet)

\* /stats asked after two requests that had waited together were served
C15_Witness ==
    /\ readResp.endpoint = "/stats"
    /\ overlap
    /\ readResp.body.total_requests = 2
    /\ readResp.body.total_tokens_generated = 6

\* C16: no step lowers request_count or total_tokens_generated.
C16_Monotonic ==
    [][/\ state'.request_count >= state.request_count
       /\ state'.total_tokens_generated >= state.total_tokens_generated]_vars

\* the counters keep their values across shutdown
C16_Witness ==
    /\ phase = "stopped"
    /\ state.request_count >= 2
    /\ state.total_tokens_generated >= 5

\* C17: shutdown clears model and tokenizer and leaves the other fields;
\* clearing again changes nothing, and clearing a state in which no model
\* was ever loaded leaves it as it is.
C17_StopIdempotent ==
    /\ [][(phase = "serving" /\ phase' = "stopped") =>
             /\ state'.model = None /\ state'.tokenizer = None
             /\ ~ModelLoaded(state')
             /\ state' = [state EXCEPT !.model = None, !.tokenizer = None]
             /\ StopState(state') = state']_vars
    /\ [](/\ StopState(StopState(state)) = StopState(state)
          /\ phase \in {"init", "failed"} => StopState(state) = state)

\* shut down after a load: model and tokenizer gone, the rest kept
C17_Witness ==
    /\ phase = "stopped"
    /\ state.model = None /\ state.tokenizer = None
    /\ state.model_id = ModelId /\ state.start_time > 0 /\ state.load_time > 0

\* C18: /health and /stats can be served whenever the event loop is free,
\* also before load and after shutdown; they answer with all fields filled
\* in and change nothing but the response.
C18_PureReads ==
    /\ [][readResp'.endpoint # None =>
             /\ state' = state
             /\ phase' = phase /\ reqs' = reqs /\ running' = running
             /\ lifespanError' = lifespanError
             /\ readResp'.body.model = state.model_id
             /\ readResp'.body.uptime_seconds \in Int
             /\ readResp'.endpoint = "/stats" =>
                   /\ readResp'.body.model_load_time_seconds = state.load_time
                   /\ readResp'.body.total_requests \in Nat
                   /\ readResp'.body.total_tokens_generated \in Nat]_vars
    /\ [](LoopIdle => (ENABLED health_check /\ ENABLED get_stats))

\* /stats asked before any load: start_time is still 0
C18_Witness ==
    /\ readResp.endpoint = "/stats"
    /\ phase = "init"
    /\ readResp.body.uptime_seconds = now
    /\ readResp.body.model = ""

\* C19 (as stated): generation_time_ms measures the generate call only.
C19_ElapsedAroundGenerate ==
    \A r \in Requests :
        (Done(r) /\ reqs[r].status = 200) =>
            reqs[r].elapsed_ms = reqs[r].gen_dur * 1000

\* the request has passed the readiness gate
PassedGate(r) == InFlight(r) \/ (Done(r) /\ reqs[r].status \in {200, 400, 500})

SucceededSet == {r \in Requests : Done(r) /\ reqs[r].status = 200}

\* C20: request_count is the number of requests that passed the readiness
\* gate, whatever their outcome; total_tokens_generated is the sum of the
\* output token counts of the requests answered 200; so request_count is at
\* least the number of 200 responses.
C20_CountersMeaning ==
    /\ state.request_count = Cardinality({r \in Requests : PassedGate(r)})
    /\ state.total_tokens_generated = SumTokens(SucceededSet)
    /\ state.request_count >= Cardinality(SucceededSet)

\* more counted requests than successes: one 200 and one 400 or 500
C20_Witness ==
    /\ Cardinality(SucceededSet) = 1
    /\ state.request_count = 2
    /\ \E r \in Requests : Done(r) /\ reqs[r].status \in {400, 500}
====
